---- MODULE Spec2Model ----
(***************************************************************************)
(* Blacklist store, ban history, blacklist enforcement, gateway session,   *)
(* suspicious-bot scanner, storage file and identity cache of the          *)
(* pastel-login-panel server (server/storage.js, server/bot.js,            *)
(* server/index.js).                                                       *)
(*                                                                         *)
(* The JSON document kept in cachedStorage is one record.  A key that is   *)
(* absent from the document and a key holding an empty list are read the   *)
(* same way by every reader (x || [], if (!x) x = []), so an absent list   *)
(* is the empty sequence here; a setting that was never written is the     *)
(* string "undefined".                                                     *)
(***************************************************************************)
EXTENDS Integers, Sequences, FiniteSets, TLC

(* ------------------------------ domains -------------------------------- *)

\* User ids the requests and gateway events carry.
Users == {"111", "222"}

\* clientIds of bot accounts.
BotIds == {"B1", "B2"}

\* activeBotId unset or null (both falsy).
NoBot == "null"

\* The partition written when no bot is active (storage.js:186).
DefaultKey == "default"

PartitionIds == BotIds \cup {DefaultKey}

Guilds == {"g1", "g2"}

(* --------------------------- list primitives --------------------------- *)

\* Array.prototype.includes
Includes(list, x) == \E i \in DOMAIN list : list[i] = x

\* Array.prototype.unshift: the new element becomes the first.
Unshift(list, x) == <<x>> \o list

\* Array.prototype.push: the new element becomes the last.
Push(list, x) == Append(list, x)

\* list.filter(uid => uid !== x)
FilterOut(list, x) == SelectSeq(list, LAMBDA e : e # x)

\* list.slice(0, n)
Slice0(list, n) == IF Len(list) <= n THEN list ELSE SubSeq(list, 1, n)

Elems(list) == {list[i] : i \in DOMAIN list}

(* ------------------------------ the store ------------------------------ *)

\* The cap of each ban history (storage.js:259, storage.js:266).
RecentBansCap == 50

\* readStorage with no storage file: the empty document.
EmptyStorage ==
    [ globalBlacklist    |-> <<>>,
      recentBans         |-> <<>>,
      botData            |-> [p \in PartitionIds |->
                                 [blacklist |-> <<>>, recentBans |-> <<>>]],
      hasBotAccounts     |-> FALSE,
      botAccounts        |-> <<>>,
      activeBotId        |-> NoBot,
      isBlacklistShared  |-> "undefined",
      isRecentBansShared |-> "undefined",
      serverBypasses     |-> [g \in Guilds |-> <<>>],
      suspiciousBots     |-> <<>>,
      userSettings       |-> [u \in Users |-> "absent"] ]

\* const id = botId || storage.activeBotId || 'default'
PartitionOf(s, botId) ==
    IF botId # NoBot THEN botId
    ELSE IF s.activeBotId # NoBot THEN s.activeBotId
    ELSE DefaultKey

getDevSettings_UnsetIsPrivate(s) ==
    [ isBlacklistShared  |-> s.isBlacklistShared = "true",
      isRecentBansShared |-> s.isRecentBansShared = "true" ]

getDevSettings(s) ==
    [ isBlacklistShared  |-> s.isBlacklistShared # "false",
      isRecentBansShared |-> s.isRecentBansShared # "false" ]

getBlacklist_AlwaysGlobal(s, botId) == s.globalBlacklist

getBlacklist(s, botId) ==
    IF getDevSettings(s).isBlacklistShared
    THEN s.globalBlacklist
    ELSE s.botData[PartitionOf(s, botId)].blacklist

addToBlacklist_SharedSkipsBot(s, userId, botId) ==
    LET id == PartitionOf(s, botId)
        g  == IF Includes(s.globalBlacklist, userId)
              THEN s.globalBlacklist ELSE Unshift(s.globalBlacklist, userId)
        b  == IF Includes(s.botData[id].blacklist, userId)
              THEN s.botData[id].blacklist
              ELSE Unshift(s.botData[id].blacklist, userId)
    IN  IF getDevSettings(s).isBlacklistShared
        THEN [s EXCEPT !.globalBlacklist = g]
        ELSE [s EXCEPT !.globalBlacklist = g, !.botData[id].blacklist = b]

addToBlacklist_Push(s, userId, botId) ==
    LET id == PartitionOf(s, botId)
        g  == IF Includes(s.globalBlacklist, userId)
              THEN s.globalBlacklist ELSE Push(s.globalBlacklist, userId)
        b  == IF Includes(s.botData[id].blacklist, userId)
              THEN s.botData[id].blacklist
              ELSE Push(s.botData[id].blacklist, userId)
    IN  [s EXCEPT !.globalBlacklist = g, !.botData[id].blacklist = b]

addToBlacklist_BotOnly(s, userId, botId) ==
    LET id == PartitionOf(s, botId)
        b  == IF Includes(s.botData[id].blacklist, userId)
              THEN s.botData[id].blacklist
              ELSE Unshift(s.botData[id].blacklist, userId)
    IN  [s EXCEPT !.botData[id].blacklist = b]

addToBlacklist(s, userId, botId) ==
    LET id == PartitionOf(s, botId)
        g  == IF Includes(s.globalBlacklist, userId)
              THEN s.globalBlacklist ELSE Unshift(s.globalBlacklist, userId)
        b  == IF Includes(s.botData[id].blacklist, userId)
              THEN s.botData[id].blacklist
              ELSE Unshift(s.botData[id].blacklist, userId)
    IN  [s EXCEPT !.globalBlacklist = g, !.botData[id].blacklist = b]

removeFromBlacklist_GlobalOnly(s, userId, botId) ==
    [s EXCEPT !.globalBlacklist = FilterOut(s.globalBlacklist, userId)]

removeFromBlacklist(s, userId, botId) ==
    LET id == PartitionOf(s, botId)
    IN  [s EXCEPT !.globalBlacklist = FilterOut(s.globalBlacklist, userId),
                  !.botData[id].blacklist =
                      FilterOut(s.botData[id].blacklist, userId)]

getBypassList(s, guildId) == s.serverBypasses[guildId]

addToBypassList_Noop(s, guildId, userId) == s

addToBypassList_NoCheck(s, guildId, userId) ==
    [s EXCEPT !.serverBypasses[guildId] = Push(@, userId)]

addToBypassList_EveryGuild(s, guildId, userId) ==
    [s EXCEPT !.serverBypasses =
        [g \in DOMAIN @ |-> IF Includes(@[g], userId) THEN @[g] ELSE Push(@[g], userId)]]

addToBypassList(s, guildId, userId) ==
    IF Includes(s.serverBypasses[guildId], userId) THEN s
    ELSE [s EXCEPT !.serverBypasses[guildId] = Push(@, userId)]

getRecentBans(s, botId) ==
    IF getDevSettings(s).isRecentBansShared
    THEN s.recentBans
    ELSE s.botData[PartitionOf(s, botId)].recentBans

addRecentBan_PartitionUncapped(s, banWithTs, botId) ==
    LET id == PartitionOf(s, botId)
    IN  [s EXCEPT
          !.recentBans = Slice0(Unshift(s.recentBans, banWithTs), RecentBansCap),
          !.botData[id].recentBans = Unshift(s.botData[id].recentBans, banWithTs)]

addRecentBan_KeepOldest(s, banWithTs, botId) ==
    LET id == PartitionOf(s, botId)
    IN  [s EXCEPT
          !.recentBans = Slice0(Push(s.recentBans, banWithTs), RecentBansCap),
          !.botData[id].recentBans =
              Slice0(Push(s.botData[id].recentBans, banWithTs), RecentBansCap)]

\* banWithTs is { ...banInfo, timestamp: Date.now() }, built by the caller here.
addRecentBan(s, banWithTs, botId) ==
    LET id == PartitionOf(s, botId)
    IN  [s EXCEPT
          !.recentBans = Slice0(Unshift(s.recentBans, banWithTs), RecentBansCap),
          !.botData[id].recentBans =
              Slice0(Unshift(s.botData[id].recentBans, banWithTs), RecentBansCap)]

\* DEFAULT_SETTINGS, with the theme as the setting that is followed.
DEFAULT_SETTINGS == "light"

getUserSettings(s, userId) ==
    IF s.userSettings[userId] = "absent" THEN DEFAULT_SETTINGS
    ELSE s.userSettings[userId]

saveUserSettings(s, userId, settings) ==
    [s EXCEPT !.userSettings[userId] = settings]

getSuspiciousBots(s) == s.suspiciousBots

saveSuspiciousBots_Merge(s, bots) == [s EXCEPT !.suspiciousBots = @ \o bots]

saveSuspiciousBots(s, bots) == [s EXCEPT !.suspiciousBots = bots]

\* An account is its clientId; an account already listed is merged in place.
\* hasBotAccounts: the botAccounts key exists (an empty array is truthy, so
\* removeBotAccount tells an absent list from an empty one).
addBotAccount(s, clientId) ==
    IF Includes(s.botAccounts, clientId)
    THEN [s EXCEPT !.hasBotAccounts = TRUE]
    ELSE [s EXCEPT !.hasBotAccounts = TRUE, !.botAccounts = Push(@, clientId)]

removeBotAccount(s, clientId) ==
    IF ~s.hasBotAccounts THEN s
    ELSE [s EXCEPT !.botAccounts = FilterOut(@, clientId),
                   !.activeBotId = IF @ = clientId THEN NoBot ELSE @]

setActiveBot(s, clientId) == [s EXCEPT !.activeBotId = clientId]

\* settings.X !== undefined guards each assignment.
saveDevSettings(s, settings) ==
    [s EXCEPT
      !.isBlacklistShared =
          IF settings.isBlacklistShared # "undefined"
          THEN settings.isBlacklistShared ELSE @,
      !.isRecentBansShared =
          IF settings.isRecentBansShared # "undefined"
          THEN settings.isRecentBansShared ELSE @]

(* ------------------------------- state --------------------------------- *)

VARIABLES
    cachedStorage,  \* storage.js: the in-memory document every operation reads and writes
    last,           \* history: the most recent blacklist operation and the document before it
    scen,           \* history: progress of the add-then-unshare scenario
    sharedAdds,     \* history: ids added while shared mode was on, not removed since
    ownAdds,        \* history: per partition, ids added while it was the written partition
    staleRemoved,   \* history: <<partition, id>> removed from the global list while
                    \*          another partition was the written one
    clock,          \* Date.now(), counted in recorded bans
    nBanEvents,     \* guildBanAdd events delivered so far
    pendingBans,    \* partial guildBanAdd events suspended at ban.fetch()
    banLog,         \* history: per history list, every record added, oldest first
    nSwitch,        \* active-bot switches so far
    joins,          \* guildMemberAdd handlers, in the order their events arrived
    msgs,           \* msgs[j]: the owner notification join j's handler sent
    clicks,         \* button interactionCreate handlers, in order of arrival
    banned,         \* the platform's bans: <<guildId, userId>>
    client,         \* bot.js: the gateway client, its login token and its state
    startCall,      \* the startBot() call in flight
    lastSwitch,     \* history: the most recent active-bot switch and its answer
    scans,          \* scanForSuspiciousBots calls, in the order they started
    lastScan,       \* history: the scan cycle that completed last
    storageFile,    \* storage.json on disk (followed in SpecDisk)
    tempFile,       \* storage.json.tmp on disk
    writing,        \* the writeStorage call in progress
    lastWrite,      \* history: the file before the latest writeStorage, and its data
    nCrashes,       \* process crashes so far
    apiCache,       \* index.js: the identity cache, by session credential
    now,            \* Date.now()
    reqs,           \* dashboard requests that resolve an identity, in order of arrival
    gateways,       \* bot.js: every Client object created so far (followed in SpecLive)
    current,        \* which of them the module variable `client` refers to
    calls           \* startBot / stopBot calls, in the order they were made

storeVars == <<cachedStorage, last, scen, sharedAdds, ownAdds, staleRemoved>>

storeHistory == <<last, scen, sharedAdds, ownAdds, staleRemoved>>

banVars == <<clock, nBanEvents, pendingBans, banLog, nSwitch>>

botVars == <<joins, msgs, clicks, banned>>

sessionVars == <<client, startCall, lastSwitch>>

scanVars == <<scans, lastScan>>

fileVars == <<storageFile, tempFile, writing, lastWrite, nCrashes>>

apiVars == <<apiCache, now, reqs>>

liveVars == <<gateways, current, calls>>

sysVars == <<sessionVars, scanVars, fileVars, apiVars, liveVars>>

vars == <<cachedStorage, last, scen, sharedAdds, ownAdds, staleRemoved,
          clock, nBanEvents, pendingBans, banLog, nSwitch,
          joins, msgs, clicks, banned, client, startCall, lastSwitch,
          scans, lastScan, storageFile, tempFile, writing, lastWrite, nCrashes,
          apiCache, now, reqs, gateways, current, calls>>

\* The discord_token cookies a request can carry: a valid one, one Discord
\* rejects, and none.
NoCookie == ""

Credentials == {"tok_111", "tok_bad"}

\* Identity requests in a run.
MaxRequests == 3

\* Clock ticks in a run.
MaxTicks == 3

NoEntry == [present |-> FALSE, user |-> "", guilds |-> "", timestamp |-> 0]

IdleRequest == [pc |-> "idle", kind |-> "", token |-> "", status |-> 0,
                user |-> "", userGuilds |-> ""]

\* Process crashes in a run.
MaxCrashes == 2

\* startBot / stopBot calls in a run that follows concurrent requests.
MaxCalls == 2

\* Client objects in such a run: the one created when bot.js is loaded and
\* one for every startBot call that gets past its isReady() return.
MaxClients == MaxCalls + 1

NoClient == [state |-> "none", loginPending |-> FALSE]

IdleCall == [pc |-> "idle", kind |-> "", on |-> 0, listen |-> 0,
             result |-> "", why |-> ""]

\* A file that does not exist, one holding the whole JSON text of a document,
\* one holding a proper prefix of it.
NoFile == [state |-> "absent", doc |-> EmptyStorage]

WholeFile(doc) == [state |-> "complete", doc |-> doc]

PartFile(doc) == [state |-> "partial", doc |-> doc]

NotWriting == [pc |-> "idle", data |-> EmptyStorage]

\* Scan cycles in a run.
MaxScans == 2

IdleScan == [pc |-> "idle", todo |-> <<>>, suspicious |-> <<>>, expected |-> {}]

\* process.env.DISCORD_BOT_TOKEN
EnvToken == "env_token"

IdleStart == [pc |-> "idle", by |-> ""]

NoSwitch == [clientId |-> "", status |-> "none", sessionToken |-> "", activeToken |-> ""]

\* Join events handled in a run.
MaxJoins == 2

\* Button clicks handled in a run.
MaxClicks == 2

IdleJoin ==
    [pc |-> "idle", guildId |-> "", userId |-> "", blacklisted |-> FALSE,
     bypassed |-> FALSE, afterAllow |-> FALSE, banCalls |-> 0, dmAttempts |-> 0,
     flag |-> "", inGlobal |-> FALSE, inPrivate |-> FALSE, ban |-> "",
     dm |-> "", elsewhere |-> FALSE]

NoMsg == [sent |-> FALSE, components |-> FALSE, edits |-> 0,
          guildId |-> "", userId |-> ""]

IdleClick ==
    [pc |-> "idle", action |-> "", msg |-> 0, guildId |-> "", userId |-> "",
     afterDeny |-> FALSE, fetched |-> FALSE, mutated |-> FALSE, unbanCalls |-> 0,
     unban |-> "", updateCalls |-> 0, outcome |-> ""]

\* The name of the global ban history in banLog.
GlobalKey == "global"

NoLast == [op |-> "none", userId |-> "", before |-> EmptyStorage]

\* The start of the scenario: "111" blacklisted with bot B1 active, shared mode on.
ScenarioStart(s) ==
    /\ s.globalBlacklist = <<"111">>
    /\ s.activeBotId = "B1"
    /\ s.botData["B1"].blacklist = <<"111">>
    /\ getDevSettings(s).isBlacklistShared

Init ==
    /\ cachedStorage = EmptyStorage
    /\ last = NoLast
    /\ scen = "none"
    /\ sharedAdds = {}
    /\ ownAdds = [p \in PartitionIds |-> {}]
    /\ staleRemoved = {}
    /\ clock = 0
    /\ nBanEvents = 0
    /\ pendingBans = {}
    /\ banLog = [k \in PartitionIds \cup {GlobalKey} |-> <<>>]
    /\ nSwitch = 0
    /\ joins = [j \in 1..MaxJoins |-> IdleJoin]
    /\ msgs = [j \in 1..MaxJoins |-> NoMsg]
    /\ clicks = [c \in 1..MaxClicks |-> IdleClick]
    /\ banned = {}
    /\ client = [token |-> EnvToken, state |-> "login"]
    /\ startCall = IdleStart
    /\ lastSwitch = NoSwitch
    /\ scans = [k \in 1..MaxScans |-> IdleScan]
    /\ lastScan = 0
    /\ storageFile = NoFile
    /\ tempFile = NoFile
    /\ writing = NotWriting
    /\ lastWrite = [prev |-> NoFile, data |-> EmptyStorage]
    /\ nCrashes = 0
    /\ apiCache = [t \in Credentials |-> NoEntry]
    /\ now = 0
    /\ reqs = [r \in 1..MaxRequests |-> IdleRequest]
    /\ gateways = [n \in 1..MaxClients |->
                      IF n = 1 THEN [state |-> "login", loginPending |-> TRUE]
                      ELSE NoClient]
    /\ current = 1
    /\ calls = [k \in 1..MaxCalls |-> IdleCall]

(* --------------------------- dashboard API ----------------------------- *)

\* Values a request body can give a scope flag.
FlagInputs == {"undefined", "true", "false"}

\* POST /api/blacklist {userId}
PostBlacklist(userId) ==
    cachedStorage' = addToBlacklist(cachedStorage, userId, NoBot)

\* DELETE /api/blacklist/:userId
DeleteBlacklist(userId) ==
    cachedStorage' = removeFromBlacklist(cachedStorage, userId, NoBot)

\* POST /api/bypass {guildId, userId}
PostBypass(guildId, userId) ==
    cachedStorage' = addToBypassList(cachedStorage, guildId, userId)

\* POST /api/dev/settings, body = settings
PostDevSettings(settings) ==
    cachedStorage' = saveDevSettings(cachedStorage, settings)

\* POST /api/dev/bots, after the token was verified
PostDevBots(clientId) ==
    cachedStorage' = addBotAccount(cachedStorage, clientId)

\* DELETE /api/dev/bots/:id
DeleteDevBots(clientId) ==
    cachedStorage' = removeBotAccount(cachedStorage, clientId)

\* POST /api/dev/bots/switch {clientId}: the store's part
PostDevBotsSwitch(clientId) ==
    cachedStorage' = setActiveBot(cachedStorage, clientId)

(* ------------------- the store under dashboard requests ----------------- *)

\* History of an add.
NoteAdd(userId) ==
    LET id == PartitionOf(cachedStorage, NoBot)
    IN  /\ last' = [op |-> "add", userId |-> userId, before |-> cachedStorage]
        /\ scen' = IF ScenarioStart(cachedStorage) /\ userId = "222"
                   THEN "added" ELSE "none"
        /\ sharedAdds' = IF getDevSettings(cachedStorage).isBlacklistShared
                         THEN sharedAdds \cup {userId} ELSE sharedAdds
        /\ ownAdds' = [ownAdds EXCEPT ![id] = @ \cup {userId}]
        /\ staleRemoved' = {pr \in staleRemoved : pr[2] # userId}

\* History of a remove.
NoteRemove(userId) ==
    LET id == PartitionOf(cachedStorage, NoBot)
    IN  /\ last' = IF last.op = "add" /\ last.userId = userId
                   THEN [last EXCEPT !.op = "add_remove"]
                   ELSE [op |-> "remove", userId |-> userId,
                         before |-> cachedStorage]
        /\ scen' = "none"
        /\ sharedAdds' = sharedAdds \ {userId}
        /\ ownAdds' = [ownAdds EXCEPT ![id] = @ \ {userId}]
        /\ staleRemoved' = staleRemoved \cup
               {<<p, userId>> : p \in {q \in PartitionIds \ {id} :
                                  Includes(cachedStorage.botData[q].blacklist, userId)}}

\* History of a settings write: whether it switched shared mode off.
NoteSettings ==
    LET unshare == /\ getDevSettings(cachedStorage).isBlacklistShared
                   /\ ~getDevSettings(cachedStorage').isBlacklistShared
    IN  /\ last' = IF unshare
                   THEN [op |-> "unshare", userId |-> "", before |-> cachedStorage]
                   ELSE NoLast
        /\ scen' = IF unshare /\ scen = "added" THEN "unshared" ELSE "none"
        /\ UNCHANGED <<sharedAdds, ownAdds, staleRemoved>>

\* History of any other request.
NoteOther ==
    /\ last' = NoLast
    /\ scen' = "none"
    /\ UNCHANGED <<sharedAdds, ownAdds, staleRemoved>>

AddRequest(userId) ==
    PostBlacklist(userId) /\ NoteAdd(userId) /\ UNCHANGED <<banVars, botVars, sysVars>>

RemoveRequest(userId) ==
    DeleteBlacklist(userId) /\ NoteRemove(userId) /\ UNCHANGED <<banVars, botVars, sysVars>>

SettingsRequest(flag) ==
    /\ PostDevSettings([isBlacklistShared |-> flag, isRecentBansShared |-> "undefined"])
    /\ NoteSettings
    /\ UNCHANGED <<banVars, botVars, sysVars>>

AddBotRequest(clientId) ==
    PostDevBots(clientId) /\ NoteOther /\ UNCHANGED <<banVars, botVars, sysVars>>

RemoveBotRequest(clientId) ==
    DeleteDevBots(clientId) /\ NoteOther /\ UNCHANGED <<banVars, botVars, sysVars>>

SwitchRequest(clientId) ==
    PostDevBotsSwitch(clientId) /\ NoteOther /\ UNCHANGED <<banVars, botVars, sysVars>>

NextStore ==
    \/ \E u \in Users : AddRequest(u)
    \/ \E u \in Users : RemoveRequest(u)
    \/ \E f \in FlagInputs : SettingsRequest(f)
    \/ \E c \in BotIds : AddBotRequest(c)
    \/ \E c \in BotIds : RemoveBotRequest(c)
    \/ \E c \in BotIds \cup {NoBot} : SwitchRequest(c)

SpecStore == Init /\ [][NextStore]_vars

(* ----------------------------- ban history ----------------------------- *)

\* Ban events delivered in a run.
MaxBans == 52

\* Partial ban events suspended at ban.fetch() at one time.
MaxPartialBans == 1

\* Active-bot switches in a run of the ban history.
MaxSwitches == 2

\* The banned user and the guild of the n-th ban event: the history lists never
\* look inside a record, so the events' contents follow their number.
BanUser(n) == IF n % 2 = 1 THEN "111" ELSE "222"

BanGuild(n) == IF n % 3 = 0 THEN "g2" ELSE "g1"

\* The object the handler passes to addRecentBan, with addRecentBan's timestamp.
BanRecord(userId, guildId, timestamp) ==
    [userId |-> userId, guildId |-> guildId, timestamp |-> timestamp]

\* addRecentBan as the handler calls it (no botId), with the history of what
\* each list was given.
RecordBan(userId, guildId) ==
    LET id  == PartitionOf(cachedStorage, NoBot)
        rec == BanRecord(userId, guildId, clock + 1)
    IN  /\ cachedStorage' = addRecentBan(cachedStorage, rec, NoBot)
        /\ clock' = clock + 1
        /\ banLog' = [banLog EXCEPT ![GlobalKey] = Append(@, rec),
                                    ![id] = Append(@, rec)]

\* guildBanAdd with a complete payload: the record is added at once.
GuildBanAdd ==
    /\ nBanEvents < MaxBans
    /\ nBanEvents' = nBanEvents + 1
    /\ RecordBan(BanUser(nBanEvents + 1), BanGuild(nBanEvents + 1))
    /\ UNCHANGED <<pendingBans, nSwitch, storeHistory, botVars, sysVars>>

\* guildBanAdd with a partial payload: the handler suspends at ban.fetch().
GuildBanAddPartial ==
    /\ nBanEvents < MaxBans
    /\ Cardinality(pendingBans) < MaxPartialBans
    /\ nBanEvents' = nBanEvents + 1
    /\ pendingBans' = pendingBans \cup
           {[n |-> nBanEvents + 1, userId |-> BanUser(nBanEvents + 1),
             guildId |-> BanGuild(nBanEvents + 1)]}
    /\ UNCHANGED <<cachedStorage, clock, banLog, nSwitch, storeHistory, botVars, sysVars>>

\* ban.fetch() resolved: the handler goes on to addRecentBan.
BanFetchResolved(n) ==
    \E b \in pendingBans :
    /\ b.n = n
    /\ pendingBans' = pendingBans \ {b}
    /\ RecordBan(b.userId, b.guildId)
    /\ UNCHANGED <<nBanEvents, nSwitch, storeHistory, botVars, sysVars>>

\* ban.fetch() rejected: the catch logs, nothing is recorded.
BanFetchRejected(n) ==
    \E b \in pendingBans :
    /\ b.n = n
    /\ pendingBans' = pendingBans \ {b}
    /\ UNCHANGED <<cachedStorage, clock, nBanEvents, banLog, nSwitch, storeHistory, botVars, sysVars>>

\* The active bot is switched between ban events.
SwitchDuringBans(clientId) ==
    /\ nSwitch < MaxSwitches
    /\ nSwitch' = nSwitch + 1
    /\ PostDevBotsSwitch(clientId)
    /\ UNCHANGED <<clock, nBanEvents, pendingBans, banLog, storeHistory, botVars, sysVars>>

\* The ban history under a long run of complete ban events.
NextBans ==
    \/ GuildBanAdd
    \/ \E c \in BotIds : SwitchDuringBans(c)

SpecBans == Init /\ [][NextBans]_vars

\* The records a history list must hold after being given `log`: the newest
\* RecentBansCap of them, newest first.
NewestFirst(log) ==
    LET n == IF Len(log) <= RecentBansCap THEN Len(log) ELSE RecentBansCap
    IN  [i \in 1..n |-> log[Len(log) - i + 1]]

HistoryOf(k) ==
    IF k = GlobalKey THEN cachedStorage.recentBans
    ELSE cachedStorage.botData[k].recentBans

\* C6: however many records addRecentBan has given a history list (the global
\* one or a bot's), the list holds exactly the newest 50 of them (all of them
\* when fewer), ordered by insertion from the newest to the oldest: the
\* oldest are dropped first.
C6_NewestFifty ==
    \A k \in PartitionIds \cup {GlobalKey} : HistoryOf(k) = NewestFirst(banLog[k])

\* more than 50 records went into the global list and into one bot's list
C6_Witness ==
    /\ Len(banLog[GlobalKey]) > RecentBansCap
    /\ Len(banLog["B1"]) > RecentBansCap
    /\ Len(cachedStorage.recentBans) = RecentBansCap
    /\ Len(cachedStorage.botData["B1"].recentBans) = RecentBansCap

(* ----------------------- claims about the store ------------------------ *)

Shared == getDevSettings(cachedStorage).isBlacklistShared

\* C5: addToBlacklist(u) immediately followed by removeFromBlacklist(u), under
\* either value of isBlacklistShared, leaves u absent from the global list and
\* from the written bot partition, and every other entry of both lists in its
\* place and order from before the add.
C5_AddThenRemove ==
    last.op = "add_remove" =>
        LET u  == last.userId
            b  == last.before
            id == PartitionOf(b, NoBot)
        IN  /\ ~Includes(cachedStorage.globalBlacklist, u)
            /\ ~Includes(cachedStorage.botData[id].blacklist, u)
            /\ cachedStorage.globalBlacklist = FilterOut(b.globalBlacklist, u)
            /\ cachedStorage.botData[id].blacklist =
                   FilterOut(b.botData[id].blacklist, u)

\* an add-then-remove in per-bot mode, with other entries in both lists
C5_Witness ==
    /\ last.op = "add_remove"
    /\ ~getDevSettings(last.before).isBlacklistShared
    /\ cachedStorage.globalBlacklist # <<>>
    /\ cachedStorage.botData[PartitionOf(last.before, NoBot)].blacklist # <<>>
    /\ last.before.activeBotId = "B2"

\* C7: from globalBlacklist = <<"111">> and B1's copy = <<"111">>, B1 active
\* and shared mode on, addToBlacklist("222") makes both lists <<"222","111">>;
\* setting isBlacklistShared to false next makes getBlacklist() return
\* <<"222","111">>, and with shared mode off and B1 active getBlacklist()
\* is B1's own copy whatever the global list holds.
C7_Scenario ==
    /\ scen = "added" =>
          /\ cachedStorage.globalBlacklist = <<"222", "111">>
          /\ cachedStorage.botData["B1"].blacklist = <<"222", "111">>
    /\ scen = "unshared" =>
          /\ getBlacklist(cachedStorage, NoBot) = <<"222", "111">>
          /\ cachedStorage.botData["B1"].blacklist = <<"222", "111">>
    /\ (~Shared /\ cachedStorage.activeBotId = "B1") =>
          getBlacklist(cachedStorage, NoBot) = cachedStorage.botData["B1"].blacklist

\* the scenario ran to its end: add "222", then shared mode switched off
C7_Witness == scen = "unshared" /\ ~Shared

\* C8 as stated: setting isBlacklistShared from true to false changes no
\* blacklist partition, the next getBlacklist() is the active bot's private list
\* as it was before, and that list holds every id added while shared mode was on.
C8_Original ==
    last.op = "unshare" =>
        LET b  == last.before
            id == PartitionOf(b, NoBot)
        IN  /\ cachedStorage.globalBlacklist = b.globalBlacklist
            /\ cachedStorage.botData = b.botData
            /\ getBlacklist(cachedStorage, NoBot) = b.botData[id].blacklist
            /\ sharedAdds \subseteq Elems(getBlacklist(cachedStorage, NoBot))

\* C8, amended: setting isBlacklistShared from true to false changes no
\* blacklist partition, and the next getBlacklist() is the active bot's private
\* list as it was before; it holds every id added while that bot's partition
\* was the written one and not removed while it was (ids added while another
\* bot, or none, was active are not written to it).
C8_UnshareFrame ==
    last.op = "unshare" =>
        LET b  == last.before
            id == PartitionOf(b, NoBot)
        IN  /\ cachedStorage.globalBlacklist = b.globalBlacklist
            /\ cachedStorage.botData = b.botData
            /\ getBlacklist(cachedStorage, NoBot) = b.botData[id].blacklist
            /\ ownAdds[id] \subseteq Elems(getBlacklist(cachedStorage, NoBot))

\* shared mode just switched off; an id added while shared mode was on and
\* another bot was active is in the global list and not in the active bot's
C8_Witness ==
    /\ last.op = "unshare"
    /\ cachedStorage.activeBotId = "B1"
    /\ cachedStorage.botData["B1"].blacklist # <<>>
    /\ \E u \in sharedAdds : ~Includes(cachedStorage.botData["B1"].blacklist, u)

\* C9: whatever isBlacklistShared is, after addToBlacklist(u) both the global
\* list and the written partition (activeBotId, or 'default') hold u, each list
\* gaining u at its head unless it held u already, and after
\* removeFromBlacklist(u) neither holds u.
C9_DualWrite ==
    LET u  == last.userId
        id == PartitionOf(cachedStorage, NoBot)
        b  == last.before
    IN  /\ last.op = "add" =>
              /\ cachedStorage.globalBlacklist =
                    IF Includes(b.globalBlacklist, u) THEN b.globalBlacklist
                    ELSE Unshift(b.globalBlacklist, u)
              /\ cachedStorage.botData[id].blacklist =
                    IF Includes(b.botData[id].blacklist, u)
                    THEN b.botData[id].blacklist
                    ELSE Unshift(b.botData[id].blacklist, u)
              /\ Includes(cachedStorage.globalBlacklist, u)
              /\ Includes(cachedStorage.botData[id].blacklist, u)
        /\ last.op \in {"remove", "add_remove"} =>
              /\ ~Includes(cachedStorage.globalBlacklist, u)
              /\ ~Includes(cachedStorage.botData[id].blacklist, u)

\* an add in shared mode that put a new id into both lists
C9_Witness ==
    /\ last.op = "add"
    /\ Shared
    /\ cachedStorage.activeBotId = "B1"
    /\ ~Includes(last.before.globalBlacklist, last.userId)
    /\ ~Includes(last.before.botData["B1"].blacklist, last.userId)

\* C10 as stated: while isBlacklistShared is true, every id in any partition of
\* botData is in globalBlacklist.
C10_Original ==
    Shared =>
        \A p \in PartitionIds :
            \A u \in Elems(cachedStorage.botData[p].blacklist) :
                Includes(cachedStorage.globalBlacklist, u)

\* C10, amended: while isBlacklistShared is true, every id in a partition of
\* botData is in globalBlacklist, except an id that removeFromBlacklist took
\* out of globalBlacklist while another partition was the written one.
C10_PrivateWithinGlobal ==
    Shared =>
        \A p \in PartitionIds :
            \A u \in Elems(cachedStorage.botData[p].blacklist) :
                \/ Includes(cachedStorage.globalBlacklist, u)
                \/ <<p, u>> \in staleRemoved

\* shared mode, two bots with private entries, all of them in the global list
C10_Witness ==
    /\ Shared
    /\ staleRemoved = {}
    /\ cachedStorage.activeBotId = "B2"
    /\ cachedStorage.botData["B1"].blacklist # <<>>
    /\ cachedStorage.botData["B2"].blacklist # <<>>
    /\ Len(cachedStorage.globalBlacklist) = 2

(* ------------------------ blacklist enforcement ------------------------ *)

ShouldBan_IgnoreBypass(blacklist, bypassList, memberId) ==
    Includes(blacklist, memberId)

\* blacklist.includes(member.id) && !bypassList.includes(member.id)
ShouldBan(blacklist, bypassList, memberId) ==
    Includes(blacklist, memberId) /\ ~Includes(bypassList, memberId)

\* The next handler slot: events are handled in the order they arrive.
NextSlot(f) == IF \E i \in DOMAIN f : f[i].pc = "idle"
               THEN CHOOSE i \in DOMAIN f :
                        f[i].pc = "idle" /\ \A k \in DOMAIN f : f[k].pc = "idle" => i <= k
               ELSE 0

\* An allow response for (guildId, userId) has ended with the notification edited.
AllowSucceeded(guildId, userId) ==
    \E c \in DOMAIN clicks :
        /\ clicks[c].action = "bypass_allow"
        /\ clicks[c].outcome = "updated"
        /\ clicks[c].guildId = guildId
        /\ clicks[c].userId = userId

\* guildMemberAdd: the handler reads both lists and, for a blacklisted user
\* without bypass, calls guild.fetchOwner() and suspends.
GuildMemberAdd(guildId, userId) ==
    LET j         == NextSlot(joins)
        blacklist == getBlacklist(cachedStorage, NoBot)
        bypass    == getBypassList(cachedStorage, guildId)
    IN  /\ j # 0
        /\ <<guildId, userId>> \notin banned
        /\ joins' = [joins EXCEPT ![j] =
              [pc          |-> IF ShouldBan(blacklist, bypass, userId)
                               THEN "fetchOwner" ELSE "done",
               guildId     |-> guildId,
               userId      |-> userId,
               blacklisted |-> Includes(blacklist, userId),
               bypassed    |-> Includes(bypass, userId),
               afterAllow  |-> AllowSucceeded(guildId, userId),
               banCalls    |-> 0,
               dmAttempts  |-> 0,
               flag        |-> cachedStorage.isBlacklistShared,
               inGlobal    |-> Includes(cachedStorage.globalBlacklist, userId),
               inPrivate   |-> Includes(
                   cachedStorage.botData[PartitionOf(cachedStorage, NoBot)].blacklist,
                   userId),
               ban         |-> "",
               dm          |-> "",
               elsewhere   |-> \E g \in Guilds \ {guildId} :
                                  Includes(getBypassList(cachedStorage, g), userId)]]
        /\ UNCHANGED <<cachedStorage, msgs, clicks, banned>>
        /\ UNCHANGED <<storeHistory, banVars, sysVars>>

\* fetchOwner() resolved: member.ban() is called.
OwnerFetched(j) ==
    /\ joins[j].pc = "fetchOwner"
    /\ joins' = [joins EXCEPT ![j].pc = "ban", ![j].banCalls = @ + 1]
    /\ UNCHANGED <<cachedStorage, msgs, clicks, banned>>
    /\ UNCHANGED <<storeHistory, banVars, sysVars>>

\* fetchOwner() rejected: the catch logs and the handler ends.
OwnerFetchRejected(j) ==
    /\ joins[j].pc = "fetchOwner"
    /\ joins' = [joins EXCEPT ![j].pc = "done"]
    /\ UNCHANGED <<cachedStorage, msgs, clicks, banned>>
    /\ UNCHANGED <<storeHistory, banVars, sysVars>>

\* member.ban() resolved: the buttons are built and owner.send() is called.
BanResolved(j) ==
    /\ joins[j].pc = "ban"
    /\ banned' = banned \cup {<<joins[j].guildId, joins[j].userId>>}
    /\ joins' = [joins EXCEPT ![j].pc = "send", ![j].dmAttempts = @ + 1,
                              ![j].ban = "ok"]
    /\ UNCHANGED <<cachedStorage, msgs, clicks>>
    /\ UNCHANGED <<storeHistory, banVars, sysVars>>

BanRejected_StillNotifies(j) ==
    /\ joins[j].pc = "ban"
    /\ joins' = [joins EXCEPT ![j].pc = "send", ![j].dmAttempts = @ + 1,
                              ![j].ban = "failed"]
    /\ UNCHANGED <<cachedStorage, msgs, clicks, banned>>
    /\ UNCHANGED <<storeHistory, banVars, sysVars>>

\* member.ban() rejected: the catch logs and the handler ends.
BanRejected(j) ==
    /\ joins[j].pc = "ban"
    /\ joins' = [joins EXCEPT ![j].pc = "done", ![j].ban = "failed"]
    /\ UNCHANGED <<cachedStorage, msgs, clicks, banned>>
    /\ UNCHANGED <<storeHistory, banVars, sysVars>>

\* owner.send() resolved: the notification exists, with its two buttons.
SendResolved(j) ==
    /\ joins[j].pc = "send"
    /\ msgs' = [msgs EXCEPT ![j] =
          [sent |-> TRUE, components |-> TRUE, edits |-> 0,
           guildId |-> joins[j].guildId, userId |-> joins[j].userId]]
    /\ joins' = [joins EXCEPT ![j].pc = "done", ![j].dm = "ok"]
    /\ UNCHANGED <<cachedStorage, clicks, banned>>
    /\ UNCHANGED <<storeHistory, banVars, sysVars>>

SendRejected_RetriesOnce(j) ==
    /\ joins[j].pc = "send"
    /\ joins' = IF joins[j].dmAttempts = 1
                THEN [joins EXCEPT ![j].dmAttempts = @ + 1, ![j].dm = "failed"]
                ELSE [joins EXCEPT ![j].pc = "done", ![j].dm = "failed"]
    /\ UNCHANGED <<cachedStorage, msgs, clicks, banned>>
    /\ UNCHANGED <<storeHistory, banVars, sysVars>>

\* owner.send() rejected: its own .catch logs and the handler ends.
SendRejected(j) ==
    /\ joins[j].pc = "send"
    /\ joins' = [joins EXCEPT ![j].pc = "done", ![j].dm = "failed"]
    /\ UNCHANGED <<cachedStorage, msgs, clicks, banned>>
    /\ UNCHANGED <<storeHistory, banVars, sysVars>>

(* --------------------------- bypass approval --------------------------- *)

ButtonActions == {"bypass_allow", "bypass_deny"}

\* interactionCreate for a button of notification m, which still shows its
\* buttons: customId.split(':') gives the action, the guild and the user.
\* bypass_allow calls guilds.fetch() and suspends, bypass_deny calls
\* interaction.update() and suspends.
ButtonClick(m, action) ==
    LET c == NextSlot(clicks)
    IN  /\ c # 0
        /\ msgs[m].sent
        /\ msgs[m].components
        /\ clicks' = [clicks EXCEPT ![c] =
              [pc         |-> IF action = "bypass_allow" THEN "fetchGuild" ELSE "update",
               action     |-> action,
               msg        |-> m,
               guildId    |-> msgs[m].guildId,
               userId     |-> msgs[m].userId,
               afterDeny  |-> \E d \in DOMAIN clicks :
                                 /\ clicks[d].msg = m
                                 /\ clicks[d].action = "bypass_deny",
               fetched    |-> FALSE,
               mutated    |-> FALSE,
               unbanCalls |-> 0,
               unban      |-> "",
               updateCalls |-> IF action = "bypass_allow" THEN 0 ELSE 1,
               outcome    |-> ""]]
        /\ UNCHANGED <<cachedStorage, joins, msgs, banned>>
        /\ UNCHANGED <<storeHistory, banVars, sysVars>>

\* guilds.fetch() resolved with the guild: the bypass entry is added and
\* guild.members.unban() is called.
GuildFetched(c) ==
    /\ clicks[c].pc = "fetchGuild"
    /\ cachedStorage' = addToBypassList(cachedStorage, clicks[c].guildId, clicks[c].userId)
    /\ clicks' = [clicks EXCEPT ![c].pc = "unban",
                                ![c].fetched = TRUE,
                                ![c].mutated = (cachedStorage' # cachedStorage),
                                ![c].unbanCalls = @ + 1]
    /\ UNCHANGED <<joins, msgs, banned>>
    /\ UNCHANGED <<storeHistory, banVars, sysVars>>

\* guilds.fetch() gave no guild or rejected: the error reply, nothing else.
GuildFetchFailed(c) ==
    /\ clicks[c].pc = "fetchGuild"
    /\ clicks' = [clicks EXCEPT ![c].pc = "done", ![c].outcome = "error_reply"]
    /\ UNCHANGED <<cachedStorage, joins, msgs, banned>>
    /\ UNCHANGED <<storeHistory, banVars, sysVars>>

UnbanSettled_FailureAborts(c, ok) ==
    /\ clicks[c].pc = "unban"
    /\ banned' = IF ok THEN banned \ {<<clicks[c].guildId, clicks[c].userId>>}
                 ELSE banned
    /\ clicks' = IF ok
                 THEN [clicks EXCEPT ![c].pc = "update", ![c].unban = "ok",
                                     ![c].updateCalls = @ + 1]
                 ELSE [clicks EXCEPT ![c].pc = "done", ![c].unban = "failed",
                                     ![c].outcome = "error_reply"]
    /\ UNCHANGED <<cachedStorage, joins, msgs>>
    /\ UNCHANGED <<storeHistory, banVars, sysVars>>

\* unban() settled (a rejection is logged by its .catch): interaction.update()
\* is called.
UnbanSettled(c, ok) ==
    /\ clicks[c].pc = "unban"
    /\ banned' = IF ok THEN banned \ {<<clicks[c].guildId, clicks[c].userId>>}
                 ELSE banned
    /\ clicks' = [clicks EXCEPT ![c].pc = "update",
                                ![c].unban = IF ok THEN "ok" ELSE "failed",
                                ![c].updateCalls = @ + 1]
    /\ UNCHANGED <<cachedStorage, joins, msgs>>
    /\ UNCHANGED <<storeHistory, banVars, sysVars>>

UpdateResolved_DenyAddsBypass(c) ==
    /\ clicks[c].pc = "update"
    /\ cachedStorage' = addToBypassList(cachedStorage, clicks[c].guildId, clicks[c].userId)
    /\ msgs' = [msgs EXCEPT ![clicks[c].msg].components = FALSE,
                            ![clicks[c].msg].edits = @ + 1]
    /\ clicks' = [clicks EXCEPT ![c].pc = "done", ![c].outcome = "updated"]
    /\ UNCHANGED <<joins, banned>>
    /\ UNCHANGED <<storeHistory, banVars, sysVars>>

\* interaction.update() resolved: the notification is edited, its buttons gone.
UpdateResolved(c) ==
    /\ clicks[c].pc = "update"
    /\ msgs' = [msgs EXCEPT ![clicks[c].msg].components = FALSE,
                            ![clicks[c].msg].edits = @ + 1]
    /\ clicks' = [clicks EXCEPT ![c].pc = "done", ![c].outcome = "updated"]
    /\ UNCHANGED <<cachedStorage, joins, banned>>
    /\ UNCHANGED <<storeHistory, banVars, sysVars>>

\* interaction.update() rejected: bypass_allow's catch sends the error reply,
\* bypass_deny has no catch and the rejection leaves the handler.
UpdateRejected(c) ==
    /\ clicks[c].pc = "update"
    /\ clicks' = [clicks EXCEPT
          ![c].pc = "done",
          ![c].outcome = IF clicks[c].action = "bypass_allow"
                         THEN "error_reply" ELSE "unhandled"]
    /\ UNCHANGED <<cachedStorage, joins, msgs, banned>>
    /\ UNCHANGED <<storeHistory, banVars, sysVars>>

\* The users whose joins are followed; the blacklist also holds other ids.
Joiners == {"111"}

\* The guilds whose owners' responses are followed.
ApprovalGuilds == {"g1"}

\* Dashboard requests arriving between the gateway events.
DashboardAdd(userId) ==
    PostBlacklist(userId) /\ UNCHANGED <<storeHistory, banVars, botVars, sysVars>>

DashboardRemove(userId) ==
    DeleteBlacklist(userId) /\ UNCHANGED <<storeHistory, banVars, botVars, sysVars>>

DashboardBypass(guildId, userId) ==
    PostBypass(guildId, userId) /\ UNCHANGED <<storeHistory, banVars, botVars, sysVars>>

\* Join handlers alone, under the requests that decide enforcement.
NextJoin ==
    \/ \E g \in Guilds, u \in Joiners : GuildMemberAdd(g, u)
    \/ \E j \in 1..MaxJoins : OwnerFetched(j)
    \/ \E j \in 1..MaxJoins : OwnerFetchRejected(j)
    \/ \E j \in 1..MaxJoins : BanResolved(j)
    \/ \E j \in 1..MaxJoins : BanRejected(j)
    \/ \E j \in 1..MaxJoins : SendResolved(j)
    \/ \E j \in 1..MaxJoins : SendRejected(j)
    \/ \E u \in Users : DashboardAdd(u)
    \/ \E u \in Users : DashboardRemove(u)
    \/ \E g \in Guilds, u \in Joiners : DashboardBypass(g, u)

SpecJoin == Init /\ [][NextJoin]_vars

\* Join handlers and the owners' responses to their notifications.
NextBot ==
    \/ \E g \in ApprovalGuilds, u \in Joiners : GuildMemberAdd(g, u)
    \/ \E j \in 1..MaxJoins : OwnerFetched(j)
    \/ \E j \in 1..MaxJoins : OwnerFetchRejected(j)
    \/ \E j \in 1..MaxJoins : BanResolved(j)
    \/ \E j \in 1..MaxJoins : BanRejected(j)
    \/ \E j \in 1..MaxJoins : SendResolved(j)
    \/ \E j \in 1..MaxJoins : SendRejected(j)
    \/ \E m \in 1..MaxJoins, a \in ButtonActions : ButtonClick(m, a)
    \/ \E c \in 1..MaxClicks : GuildFetched(c)
    \/ \E c \in 1..MaxClicks : GuildFetchFailed(c)
    \/ \E c \in 1..MaxClicks, ok \in BOOLEAN : UnbanSettled(c, ok)
    \/ \E c \in 1..MaxClicks : UpdateResolved(c)
    \/ \E c \in 1..MaxClicks : UpdateRejected(c)
    \/ \E u \in Joiners : DashboardAdd(u)
    \/ \E g \in ApprovalGuilds, u \in Joiners : DashboardBypass(g, u)

SpecBot == Init /\ [][NextBot]_vars

(* ------------------ claims about enforcement and approval -------------- *)

Handled(j) == joins[j].pc # "idle"

\* C1: a join of a user who is on the effective blacklist and not on the
\* guild's bypass list when the event is handled gets exactly one ban call and
\* at most one owner message, whatever external call fails.
C1_ExactlyOneBan ==
    \A j \in 1..MaxJoins :
        (Handled(j) /\ joins[j].blacklisted /\ ~joins[j].bypassed) =>
            /\ joins[j].banCalls <= 1
            /\ joins[j].dmAttempts <= 1
            /\ joins[j].pc = "done" => joins[j].banCalls = 1

\* C2: a join of a user who is on the effective blacklist and on the guild's
\* bypass list when the event is handled gets no ban call and no owner message.
C2_BypassedNoBan ==
    \A j \in 1..MaxJoins :
        (Handled(j) /\ joins[j].blacklisted /\ joins[j].bypassed) =>
            /\ joins[j].pc = "done"
            /\ joins[j].banCalls = 0
            /\ joins[j].dmAttempts = 0
            /\ ~msgs[j].sent

\* a blacklisted, bypassed user joined g2 while the blacklist held another id too
C2_Witness ==
    \E j \in 1..MaxJoins :
        /\ joins[j].pc = "done"
        /\ joins[j].blacklisted
        /\ joins[j].bypassed
        /\ joins[j].guildId = "g2"
        /\ Len(cachedStorage.globalBlacklist) = 2

\* C3: once an allow response for (G,U) has ended with the notification
\* edited, a join of U to G that arrives later gets no ban call, and the
\* notification that was answered shows no button.
C3_AllowThenJoin ==
    /\ \A j \in 1..MaxJoins :
          (Handled(j) /\ joins[j].afterAllow) =>
              joins[j].banCalls = 0 /\ joins[j].pc = "done"
    /\ \A c \in 1..MaxClicks :
          (clicks[c].action = "bypass_allow" /\ clicks[c].outcome = "updated") =>
              ~msgs[clicks[c].msg].components

\* the user, still blacklisted, joined again after the owner's allow
C3_Witness ==
    \E j \in 1..MaxJoins :
        /\ joins[j].afterAllow
        /\ joins[j].blacklisted
        /\ joins[j].pc = "done"

\* C4: a deny response adds no bypass entry, and a click on either button of
\* a notification that already got a deny click (also one that arrives before
\* the first response's edit is done) changes no state and edits nothing.
C4_DenyIsFinal ==
    /\ \A c \in 1..MaxClicks :
          clicks[c].action = "bypass_deny" => ~clicks[c].mutated
    /\ \A c \in 1..MaxClicks :
          clicks[c].afterDeny =>
              /\ ~clicks[c].mutated
              /\ clicks[c].unbanCalls = 0
              /\ clicks[c].outcome # "updated"

\* C11: once an allow response has fetched its guild, U is in G's bypass
\* list and exactly one unban call was made; when that call has settled,
\* failed or not, interaction.update() was called once and the handler goes
\* on to its end, and an accepted update leaves the notification without
\* buttons.
C11_AllowBestEffortUnban ==
    \A c \in 1..MaxClicks :
        (clicks[c].action = "bypass_allow" /\ clicks[c].fetched) =>
            /\ Includes(getBypassList(cachedStorage, clicks[c].guildId),
                        clicks[c].userId)
            /\ clicks[c].unbanCalls = 1
            /\ clicks[c].unban # "" =>
                  /\ clicks[c].updateCalls = 1
                  /\ clicks[c].pc \in {"update", "done"}
            /\ clicks[c].outcome = "updated" =>
                  ~msgs[clicks[c].msg].components

\* an allow response whose unban call failed ended with the notification edited
C11_Witness ==
    \E c \in 1..MaxClicks :
        /\ clicks[c].action = "bypass_allow"
        /\ clicks[c].unban = "failed"
        /\ clicks[c].outcome = "updated"
        /\ Includes(getBypassList(cachedStorage, clicks[c].guildId), clicks[c].userId)

\* C12: an allow response that ended with the error reply changed nothing in
\* the stored document, and one that ended otherwise added the bypass entry
\* and edited the notification.
C12_AllowAllOrNothing ==
    \A c \in 1..MaxClicks :
        (clicks[c].action = "bypass_allow" /\ clicks[c].pc = "done") =>
            IF clicks[c].outcome = "error_reply"
            THEN ~clicks[c].mutated
            ELSE /\ clicks[c].outcome = "updated"
                 /\ Includes(getBypassList(cachedStorage, clicks[c].guildId),
                             clicks[c].userId)

\* C13: every pair in a guild's bypass list was put there by an allow
\* response for that guild and user.
C13_OnlyAllowWrites ==
    \A g \in Guilds : \A u \in Elems(getBypassList(cachedStorage, g)) :
        \E c \in 1..MaxClicks :
            /\ clicks[c].action = "bypass_allow"
            /\ clicks[c].fetched
            /\ clicks[c].guildId = g
            /\ clicks[c].userId = u

\* C13, amended: a guild's bypass list changes only in a step of an allow
\* response that has fetched its guild or in a POST /api/bypass request, and
\* the step adds exactly the pair it was given; no other handler or endpoint
\* writes a bypass entry.
C13_BypassWriters ==
    [][cachedStorage'.serverBypasses # cachedStorage.serverBypasses =>
          \/ \E c \in 1..MaxClicks :
                /\ GuildFetched(c)
                /\ clicks[c].action = "bypass_allow"
                /\ cachedStorage'.serverBypasses =
                      [cachedStorage.serverBypasses EXCEPT
                          ![clicks[c].guildId] = Push(@, clicks[c].userId)]
          \/ \E g \in Guilds, u \in Users :
                /\ DashboardBypass(g, u)
                /\ cachedStorage'.serverBypasses =
                      [cachedStorage.serverBypasses EXCEPT ![g] = Push(@, u)]]_vars

\* a bypass entry exists that no owner approved: POST /api/bypass wrote it
C13_Witness ==
    \E g \in Guilds : \E u \in Elems(getBypassList(cachedStorage, g)) :
        /\ \A c \in 1..MaxClicks :
              ~(clicks[c].action = "bypass_allow" /\ clicks[c].fetched)
        /\ \E j \in 1..MaxJoins : joins[j].pc = "done" /\ joins[j].bypassed

(* --------------------------- gateway session --------------------------- *)

\* The token a bot account was registered with (botAccount.token).
TokenOf(clientId) == IF clientId = "B1" THEN "token_B1" ELSE "token_B2"

getActiveBotToken(s) ==
    IF s.activeBotId = NoBot THEN EnvToken
    ELSE IF Includes(s.botAccounts, s.activeBotId) THEN TokenOf(s.activeBotId)
    ELSE EnvToken

\* startBot() past its isReady() return: the old client is destroyed, a new
\* one is created and client.login(process.env.DISCORD_BOT_TOKEN) is awaited.
\* startBot declares no parameter: an argument passed to it is not read.
startBot(by) ==
    /\ client' = [token |-> EnvToken, state |-> "login"]
    /\ startCall' = [pc |-> "login", by |-> by]

\* POST /api/dev/bots/switch {clientId}: setActiveBot, getActiveBotToken,
\* stopBot (the client, if ready, is destroyed), startBot(botToken).
SwitchBegin(clientId) ==
    /\ startCall.pc = "idle"
    /\ PostDevBotsSwitch(clientId)
    /\ startBot("switch")
    /\ lastSwitch' = [NoSwitch EXCEPT !.clientId = clientId, !.status = "pending"]
    /\ UNCHANGED <<storeHistory, banVars, botVars, scanVars, fileVars, apiVars, liveVars>>

\* POST /api/bot/start while the client is not ready.
BotStartRequest ==
    /\ startCall.pc = "idle"
    /\ client.state # "ready"
    /\ startBot("start")
    /\ UNCHANGED <<cachedStorage, lastSwitch, storeHistory, banVars, botVars, scanVars, fileVars, apiVars, liveVars>>

\* POST /api/bot/stop while the client is ready: client.destroy().
BotStopRequest ==
    /\ client.state = "ready"
    /\ client' = [client EXCEPT !.state = "destroyed"]
    /\ UNCHANGED <<cachedStorage, startCall, lastSwitch, storeHistory, banVars, botVars, scanVars, fileVars, apiVars, liveVars>>

\* client.login() resolved: startBot goes on to wait for the ready event.
LoginResolved ==
    /\ client.state = "login"
    /\ client' = [client EXCEPT !.state = "connecting"]
    /\ startCall' = IF startCall.pc = "login"
                    THEN [startCall EXCEPT !.pc = "waitReady"] ELSE startCall
    /\ UNCHANGED <<cachedStorage, lastSwitch, storeHistory, banVars, botVars, scanVars, fileVars, apiVars, liveVars>>

\* client.login() rejected: startBot returns false, the switch answers
\* {success: false}.
LoginRejected ==
    /\ client.state = "login"
    /\ client' = [client EXCEPT !.state = "failed"]
    /\ startCall' = IdleStart
    /\ lastSwitch' = IF startCall.pc = "login" /\ startCall.by = "switch"
                     THEN [lastSwitch EXCEPT !.status = "failed"] ELSE lastSwitch
    /\ UNCHANGED <<cachedStorage, storeHistory, banVars, botVars, scanVars, fileVars, apiVars, liveVars>>

\* The ready event: a waiting startBot resolves true, the switch answers
\* {success: true}.
ClientReady ==
    /\ client.state = "connecting"
    /\ client' = [client EXCEPT !.state = "ready"]
    /\ startCall' = IdleStart
    /\ lastSwitch' = IF startCall.pc = "waitReady" /\ startCall.by = "switch"
                     THEN [lastSwitch EXCEPT
                              !.status = "ok",
                              !.sessionToken = client.token,
                              !.activeToken = getActiveBotToken(cachedStorage)]
                     ELSE lastSwitch
    /\ UNCHANGED <<cachedStorage, storeHistory, banVars, botVars, scanVars, fileVars, apiVars, liveVars>>

\* The 15 s timer of startBot fires first: startBot resolves false.
ReadyTimeout ==
    /\ startCall.pc = "waitReady"
    /\ startCall' = IdleStart
    /\ lastSwitch' = IF startCall.by = "switch"
                     THEN [lastSwitch EXCEPT !.status = "failed"] ELSE lastSwitch
    /\ UNCHANGED <<cachedStorage, client, storeHistory, banVars, botVars, scanVars, fileVars, apiVars, liveVars>>

\* Bot accounts registered and removed between the switches.
DashboardAddBot(clientId) ==
    /\ PostDevBots(clientId)
    /\ UNCHANGED <<sessionVars, storeHistory, banVars, botVars, scanVars, fileVars, apiVars, liveVars>>

DashboardRemoveBot(clientId) ==
    /\ DeleteDevBots(clientId)
    /\ UNCHANGED <<sessionVars, storeHistory, banVars, botVars, scanVars, fileVars, apiVars, liveVars>>

NextSwitch ==
    \/ \E c \in BotIds \cup {NoBot} : SwitchBegin(c)
    \/ BotStartRequest
    \/ BotStopRequest
    \/ LoginResolved
    \/ LoginRejected
    \/ ClientReady
    \/ ReadyTimeout
    \/ \E c \in BotIds : DashboardAddBot(c)
    \/ \E c \in BotIds : DashboardRemoveBot(c)

SpecSwitch == Init /\ [][NextSwitch]_vars

\* C14: when a switch answers {success: true}, the live session is logged in
\* with the token of the bot account that activeBotId names.
C14_SessionUsesActiveToken ==
    lastSwitch.status = "ok" => lastSwitch.sessionToken = lastSwitch.activeToken

(* ------------------------ suspicious-bot scanner ----------------------- *)

\* c.user.id, the session's own bot.
SelfId == "self_bot"

\* Guild members as members.fetch() returns them: m.user.bot, the
\* Administrator permission, the VerifiedBot flag.
MemberCatalog ==
    << [id |-> SelfId,     bot |-> TRUE,  admin |-> TRUE,  verified |-> FALSE],
       [id |-> "rogue",    bot |-> TRUE,  admin |-> TRUE,  verified |-> FALSE],
       [id |-> "owner",    bot |-> FALSE, admin |-> TRUE,  verified |-> FALSE],
       [id |-> "verified", bot |-> TRUE,  admin |-> TRUE,  verified |-> TRUE],
       [id |-> "helper",   bot |-> TRUE,  admin |-> FALSE, verified |-> FALSE] >>

\* The member lists a guild can answer with: the own bot and any of the others.
MemberLists ==
    { SelectSeq(MemberCatalog, LAMBDA m : m.id = SelfId \/ m.id \in S) :
        S \in SUBSET {"rogue", "owner", "verified", "helper"} }

\* The iteration order of c.guilds.cache.
GuildCache == <<"g1", "g2">>

\* The entry pushed for a bot (the display fields follow from the two ids).
SuspiciousEntry(m, guildId) == [id |-> m.id, guildId |-> guildId]

\* One guild's pass of the loop: bots other than the own one, then those with
\* Administrator and without the VerifiedBot flag, in the members' order.
ScanGuild(members, guildId) ==
    LET bots == SelectSeq(members, LAMBDA m : m.bot /\ m.id # SelfId)
        hits == SelectSeq(bots, LAMBDA m : ~m.verified /\ m.admin)
    IN  [i \in DOMAIN hits |-> SuspiciousEntry(hits[i], guildId)]

\* scanForSuspiciousBots is called (ready event or 30-minute timer) on a
\* ready client: the first guild's members.fetch() is awaited.
ScanStart ==
    LET k == NextSlot(scans)
    IN  /\ k # 0
        /\ client.state = "ready"
        /\ scans' = [scans EXCEPT ![k] = [IdleScan EXCEPT !.pc = "fetch",
                                                          !.todo = GuildCache]]
        /\ UNCHANGED <<cachedStorage, lastScan, sessionVars,
                       storeHistory, banVars, botVars, fileVars, apiVars, liveVars>>

\* The rest of a cycle after one guild was dealt with: the next fetch, or after
\* the last guild saveSuspiciousBots(suspicious).
ScanAdvance(k, found, counted) ==
    LET rest == Tail(scans[k].todo)
        list == scans[k].suspicious \o found
    IN  /\ scans' = [scans EXCEPT
              ![k].todo = rest,
              ![k].suspicious = list,
              ![k].expected = @ \cup counted,
              ![k].pc = IF rest = <<>> THEN "done" ELSE "fetch"]
        /\ cachedStorage' = IF rest = <<>>
                            THEN saveSuspiciousBots(cachedStorage, list)
                            ELSE cachedStorage
        /\ lastScan' = IF rest = <<>> THEN k ELSE lastScan

\* members.fetch() of the current guild resolved.
MembersFetched(k, members) ==
    LET g == Head(scans[k].todo)
    IN  /\ scans[k].pc = "fetch"
        /\ ScanAdvance(k, ScanGuild(members, g),
               { SuspiciousEntry(members[i], g) : i \in
                   { n \in DOMAIN members :
                       /\ members[n].bot
                       /\ members[n].id # SelfId
                       /\ members[n].admin
                       /\ ~members[n].verified } })
        /\ UNCHANGED <<sessionVars, storeHistory, banVars, botVars, fileVars, apiVars, liveVars>>

\* members.fetch() of the current guild rejected: the guild is skipped.
MembersFetchFailed(k) ==
    /\ scans[k].pc = "fetch"
    /\ ScanAdvance(k, <<>>, {})
    /\ UNCHANGED <<sessionVars, storeHistory, banVars, botVars, fileVars, apiVars, liveVars>>

\* The cycles, with the session becoming ready and being stopped around them.
NextScan ==
    \/ ScanStart
    \/ \E k \in 1..MaxScans, ms \in MemberLists : MembersFetched(k, ms)
    \/ \E k \in 1..MaxScans : MembersFetchFailed(k)
    \/ LoginResolved
    \/ ClientReady
    \/ BotStopRequest

SpecScan == Init /\ [][NextScan]_vars

\* C15: after a scan cycle has completed, the stored list holds exactly the
\* members that are bots, not the own bot, Administrator and not verified,
\* of the guilds whose fetch succeeded in that cycle, each once: nothing of an
\* earlier cycle, nothing for a guild whose fetch failed.
C15_ScanReplaces ==
    lastScan # 0 =>
        /\ Elems(getSuspiciousBots(cachedStorage)) = scans[lastScan].expected
        /\ Len(getSuspiciousBots(cachedStorage)) =
              Cardinality(scans[lastScan].expected)
        /\ scans[lastScan].pc = "done"

\* a second cycle, in which one guild failed, replaced a non-empty list of
\* the first by the single entry of the guild that answered
C15_Witness ==
    /\ lastScan = 2
    /\ scans[1].pc = "done"
    /\ Cardinality(scans[1].expected) = 2
    /\ getSuspiciousBots(cachedStorage) = <<[id |-> "rogue", guildId |-> "g2"]>>

(* --------------------------- the storage file -------------------------- *)

\* readStorage on a fresh process: no file or an empty one gives {}, a whole
\* file its document, a file that does not parse gives {} as well.
readStorage(file) == IF file.state = "complete" THEN file.doc ELSE EmptyStorage

\* writeStorage(data) up to its first file operation: cachedStorage = data.
writeStorage(data) ==
    /\ writing.pc = "idle"
    /\ cachedStorage' = data
    /\ writing' = [pc |-> "temp", data |-> data]
    /\ lastWrite' = [prev |-> storageFile, data |-> data]
    /\ UNCHANGED <<storageFile, tempFile, nCrashes>>

\* The requests whose store operation ends in writeStorage(storage).
WriteAdd(userId) ==
    /\ writeStorage(addToBlacklist(cachedStorage, userId, NoBot))
    /\ UNCHANGED <<storeHistory, banVars, botVars, sessionVars, scanVars, apiVars, liveVars>>

WriteRemove(userId) ==
    /\ writeStorage(removeFromBlacklist(cachedStorage, userId, NoBot))
    /\ UNCHANGED <<storeHistory, banVars, botVars, sessionVars, scanVars, apiVars, liveVars>>

WriteBypass(guildId, userId) ==
    /\ writeStorage(addToBypassList(cachedStorage, guildId, userId))
    /\ UNCHANGED <<storeHistory, banVars, botVars, sessionVars, scanVars, apiVars, liveVars>>

TempOpened_InPlace ==
    /\ writing.pc = "temp"
    /\ storageFile' = PartFile(writing.data)
    /\ writing' = [writing EXCEPT !.pc = "tempOpen"]
    /\ UNCHANGED <<cachedStorage, tempFile, lastWrite, nCrashes>>
    /\ UNCHANGED <<storeHistory, banVars, botVars, sessionVars, scanVars, apiVars, liveVars>>

\* fs.writeFileSync(tempPath, ...) under way: the temporary file was
\* truncated and holds part of the text.
TempOpened ==
    /\ writing.pc = "temp"
    /\ tempFile' = PartFile(writing.data)
    /\ writing' = [writing EXCEPT !.pc = "tempOpen"]
    /\ UNCHANGED <<cachedStorage, storageFile, lastWrite, nCrashes>>
    /\ UNCHANGED <<storeHistory, banVars, botVars, sessionVars, scanVars, apiVars, liveVars>>

\* fs.writeFileSync returned: the temporary file holds the whole text.
TempWritten ==
    /\ writing.pc = "tempOpen"
    /\ tempFile' = WholeFile(writing.data)
    /\ writing' = [writing EXCEPT !.pc = "rename"]
    /\ UNCHANGED <<cachedStorage, storageFile, lastWrite, nCrashes>>
    /\ UNCHANGED <<storeHistory, banVars, botVars, sessionVars, scanVars, apiVars, liveVars>>

\* fs.renameSync(tempPath, STORAGE_PATH) returned: one atomic replacement.
Renamed ==
    /\ writing.pc = "rename"
    /\ storageFile' = tempFile
    /\ tempFile' = NoFile
    /\ writing' = NotWriting
    /\ UNCHANGED <<cachedStorage, lastWrite, nCrashes>>
    /\ UNCHANGED <<storeHistory, banVars, botVars, sessionVars, scanVars, apiVars, liveVars>>

\* A file operation threw (disk full, no permission): the catch logs, the
\* cache keeps the new document, the files stay as they are.
WriteFailed ==
    /\ writing.pc \in {"tempOpen", "rename"}
    /\ writing' = NotWriting
    /\ UNCHANGED <<cachedStorage, storageFile, tempFile, lastWrite, nCrashes>>
    /\ UNCHANGED <<storeHistory, banVars, botVars, sessionVars, scanVars, apiVars, liveVars>>

\* The process dies at any point and is started again: the cache is gone and
\* the next readStorage loads the storage file.
CrashAndRestart ==
    /\ nCrashes < MaxCrashes
    /\ nCrashes' = nCrashes + 1
    /\ cachedStorage' = readStorage(storageFile)
    /\ writing' = NotWriting
    /\ UNCHANGED <<storageFile, tempFile, lastWrite>>
    /\ UNCHANGED <<storeHistory, banVars, botVars, sessionVars, scanVars, apiVars, liveVars>>

NextDisk ==
    \/ \E u \in Users : WriteAdd(u)
    \/ \E u \in Users : WriteRemove(u)
    \/ \E g \in ApprovalGuilds, u \in Joiners : WriteBypass(g, u)
    \/ TempOpened
    \/ TempWritten
    \/ Renamed
    \/ WriteFailed
    \/ CrashAndRestart

SpecDisk == Init /\ [][NextDisk]_vars

\* C16: at every step of every write, and after a crash at any of them, the
\* storage file is what it was before the latest writeStorage began (the whole
\* previous document, or no file before the first write) or the whole
\* document that call was given; it never holds part of a document.  The text
\* goes to the temporary file first and reaches the storage file by rename.
C16_FileOldOrNew ==
    /\ storageFile.state # "partial"
    /\ storageFile = lastWrite.prev \/ storageFile = WholeFile(lastWrite.data)
    /\ writing.pc = "rename" => tempFile = WholeFile(writing.data)
    /\ writing.pc \in {"temp", "tempOpen", "rename"} => storageFile = lastWrite.prev

\* the process crashed while the temporary file was half written, and came
\* back with the whole previous document
C16_Witness ==
    /\ nCrashes > 0
    /\ writing.pc = "idle"
    /\ tempFile.state = "partial"
    /\ storageFile.state = "complete"
    /\ storageFile.doc.globalBlacklist # <<>>
    /\ tempFile.doc # storageFile.doc
    /\ cachedStorage = storageFile.doc

(* --------------------------- identity cache ---------------------------- *)

CACHE_TTL == 30 * 1000

\* The time between two clock readings that differ.
TickMs == CACHE_TTL \div 2

\* What Discord answers for a token: /users/@me and /users/@me/guilds.
ValidToken(token) == token = "tok_111"

UserOf(token) == "111"

GuildsOf(userId) == "guilds_of_" \o userId

\* cached && (Date.now() - cached.timestamp < CACHE_TTL)
CacheHit(token) ==
    apiCache[token].present /\ now - apiCache[token].timestamp < CACHE_TTL

\* The object each caller's fetchFn resolves to: /api/user and /api/handshake
\* build {user, guilds}, POST /api/settings builds {user}.
FetchedData(kind, token) ==
    [user   |-> UserOf(token),
     guilds |-> IF kind = "settings" THEN "undefined" ELSE GuildsOf(UserOf(token))]

\* The answer of a request once its identity data is at hand.
Answer(r, data) ==
    [r EXCEPT !.pc = "done",
              !.status = 200,
              !.user = data.user,
              !.userGuilds = IF r.kind = "settings" THEN "" ELSE data.guilds]

\* The store's part of a request once its identity data is at hand.
StoreAfterIdentity(kind, data) ==
    IF kind = "settings"
    THEN saveUserSettings(cachedStorage, data.user, "dark")
    ELSE cachedStorage

\* A request arrives.  Without cookie it is answered 401; otherwise
\* getCachedOrFetch(token, 'user', fetchFn) answers from the cache or awaits
\* fetchFn.
IdentityRequest(kind, token) ==
    LET k == NextSlot(reqs)
        r == [IdleRequest EXCEPT !.kind = kind, !.token = token]
    IN  /\ k # 0
        /\ IF token = NoCookie
           THEN /\ reqs' = [reqs EXCEPT ![k] = [r EXCEPT !.pc = "done", !.status = 401]]
                /\ UNCHANGED cachedStorage
           ELSE IF CacheHit(token)
           THEN /\ reqs' = [reqs EXCEPT ![k] = Answer(r, apiCache[token])]
                /\ cachedStorage' = StoreAfterIdentity(kind, apiCache[token])
           ELSE /\ reqs' = [reqs EXCEPT ![k] = [r EXCEPT !.pc = "fetch"]]
                /\ UNCHANGED cachedStorage
        /\ UNCHANGED <<apiCache, now>>

\* GET /api/handshake
GetHandshake(token) ==
    /\ IdentityRequest("handshake", token)
    /\ UNCHANGED <<storeHistory, banVars, botVars, sessionVars, scanVars, fileVars, liveVars>>

\* GET /api/user
GetUser(token) ==
    /\ IdentityRequest("user", token)
    /\ UNCHANGED <<storeHistory, banVars, botVars, sessionVars, scanVars, fileVars, liveVars>>

\* POST /api/settings
PostSettings(token) ==
    /\ IdentityRequest("settings", token)
    /\ UNCHANGED <<storeHistory, banVars, botVars, sessionVars, scanVars, fileVars, liveVars>>

\* fetchFn resolved: apiCache.set(cacheKey, {data, timestamp: Date.now()}) and
\* the handler answers.
IdentityFetched(k) ==
    LET data == FetchedData(reqs[k].kind, reqs[k].token)
    IN  /\ reqs[k].pc = "fetch"
        /\ ValidToken(reqs[k].token)
        /\ apiCache' = [apiCache EXCEPT ![reqs[k].token] =
              [present |-> TRUE, user |-> data.user, guilds |-> data.guilds,
               timestamp |-> now]]
        /\ reqs' = [reqs EXCEPT ![k] = Answer(reqs[k], data)]
        /\ cachedStorage' = StoreAfterIdentity(reqs[k].kind, data)
        /\ UNCHANGED now
        /\ UNCHANGED <<storeHistory, banVars, botVars, sessionVars, scanVars, fileVars, liveVars>>

\* fetchFn rejected (Discord refuses the token, or the call fails): 401, or
\* 500 from POST /api/settings.
IdentityFetchRejected(k) ==
    /\ reqs[k].pc = "fetch"
    /\ reqs' = [reqs EXCEPT ![k].pc = "done",
                            ![k].status = IF reqs[k].kind = "settings" THEN 500 ELSE 401]
    /\ UNCHANGED <<cachedStorage, apiCache, now>>
    /\ UNCHANGED <<storeHistory, banVars, botVars, sessionVars, scanVars, fileVars, liveVars>>

\* Time passes.
Tick ==
    /\ now < MaxTicks * TickMs
    /\ now' = now + TickMs
    /\ UNCHANGED <<cachedStorage, apiCache, reqs>>
    /\ UNCHANGED <<storeHistory, banVars, botVars, sessionVars, scanVars, fileVars, liveVars>>

NextApi ==
    \/ \E t \in Credentials \cup {NoCookie} : GetHandshake(t)
    \/ \E t \in Credentials \cup {NoCookie} : GetUser(t)
    \/ \E t \in Credentials \cup {NoCookie} : PostSettings(t)
    \/ \E k \in 1..MaxRequests : IdentityFetched(k)
    \/ \E k \in 1..MaxRequests : IdentityFetchRejected(k)
    \/ Tick

SpecApi == Init /\ [][NextApi]_vars

\* C17: a handshake without cookie, or with a token that resolves to no
\* user, is answered 401; any other answer is 200 and carries the user of the
\* token and that user's guild list as userGuilds.
C17_HandshakeAnswer ==
    \A k \in 1..MaxRequests :
        (reqs[k].kind = "handshake" /\ reqs[k].pc = "done") =>
            IF reqs[k].token = NoCookie \/ ~ValidToken(reqs[k].token)
            THEN reqs[k].status = 401
            ELSE reqs[k].status = 200 =>
                    /\ reqs[k].user = UserOf(reqs[k].token)
                    /\ reqs[k].userGuilds = GuildsOf(reqs[k].user)

(* --------------------------- scope resolution -------------------------- *)

\* Ban events in a run that follows the scope flags.
MaxScopeBans == 1

\* POST /api/dev/settings with both flags in the body.
DashboardSettings(blacklistFlag, recentBansFlag) ==
    /\ PostDevSettings([isBlacklistShared |-> blacklistFlag,
                        isRecentBansShared |-> recentBansFlag])
    /\ UNCHANGED <<storeHistory, banVars, botVars, sysVars>>

\* POST /api/dev/bots/switch, the store's part.
DashboardSwitch(clientId) ==
    /\ PostDevBotsSwitch(clientId)
    /\ UNCHANGED <<storeHistory, banVars, botVars, sysVars>>

\* A ban event with a complete payload.
ScopeBanAdd ==
    /\ nBanEvents < MaxScopeBans
    /\ GuildBanAdd

\* Joins in a run that follows the scope flags.
MaxScopeJoins == 1

\* A member joins while the scope flags and the active bot change.
ScopeMemberAdd(guildId, userId) ==
    /\ Cardinality({j \in 1..MaxJoins : joins[j].pc # "idle"}) < MaxScopeJoins
    /\ GuildMemberAdd(guildId, userId)

\* Joins and ban events under changing scope flags and active bot.
NextScope ==
    \/ \E u \in Joiners : DashboardAdd(u)
    \/ \E f1 \in FlagInputs, f2 \in FlagInputs : DashboardSettings(f1, f2)
    \/ \E c \in BotIds : DashboardSwitch(c)
    \/ ScopeBanAdd
    \/ \E g \in ApprovalGuilds, u \in Joiners : ScopeMemberAdd(g, u)
    \/ \E j \in 1..MaxJoins : OwnerFetched(j)
    \/ \E j \in 1..MaxJoins : BanResolved(j)
    \/ \E j \in 1..MaxJoins : SendResolved(j)

SpecScope == Init /\ [][NextScope]_vars

\* The partition written and read for the active bot ('default' without one).
ActivePartition == cachedStorage.botData[PartitionOf(cachedStorage, NoBot)]

\* C18: getBlacklist() is globalBlacklist when isBlacklistShared is true or
\* was never set, otherwise the active bot's private list; getRecentBans()
\* is resolved the same way by isRecentBansShared alone; a join is decided on
\* the list that is read, so a user who is only in the other list gets no
\* ban call.
C18_ScopeResolution ==
    /\ getBlacklist(cachedStorage, NoBot) =
          IF cachedStorage.isBlacklistShared \in {"true", "undefined"}
          THEN cachedStorage.globalBlacklist ELSE ActivePartition.blacklist
    /\ getRecentBans(cachedStorage, NoBot) =
          IF cachedStorage.isRecentBansShared \in {"true", "undefined"}
          THEN cachedStorage.recentBans ELSE ActivePartition.recentBans
    /\ \A j \in 1..MaxJoins :
          joins[j].pc # "idle" =>
              /\ joins[j].blacklisted =
                    IF joins[j].flag \in {"true", "undefined"}
                    THEN joins[j].inGlobal ELSE joins[j].inPrivate
              /\ ~joins[j].blacklisted =>
                    joins[j].banCalls = 0 /\ joins[j].pc = "done"

\* a user who is in the global list only joined in per-bot mode and was not
\* banned, while the ban history was read from the global list
C18_Witness ==
    /\ \E j \in 1..MaxJoins :
          /\ joins[j].pc = "done"
          /\ joins[j].flag = "false"
          /\ joins[j].inGlobal
          /\ ~joins[j].inPrivate
          /\ joins[j].banCalls = 0
    /\ cachedStorage.isBlacklistShared = "false"
    /\ cachedStorage.isRecentBansShared = "undefined"
    /\ cachedStorage.recentBans # <<>>
    /\ ActivePartition.recentBans = <<>>
    /\ getRecentBans(cachedStorage, NoBot) = cachedStorage.recentBans

(* ------------------- ban events and the two histories ------------------ *)

\* A history list after one more record: the record first, then the old
\* entries as far as the cap leaves room.
WithOneMore(list, rec) ==
    LET keep == IF Len(list) < RecentBansCap THEN Len(list) ELSE RecentBansCap - 1
    IN  <<rec>> \o SubSeq(list, 1, keep)

\* C19: every guildBanAdd event whose record is built puts exactly one record
\* at the head of the global history and the same record at the head of the
\* active bot's private history, leaving the other bots' histories alone;
\* each list is cut to 50 on its own, so no history ever holds more than 50.
C19_DualAppend ==
    /\ [][nBanEvents' # nBanEvents =>
            LET id  == PartitionOf(cachedStorage, NoBot)
                rec == BanRecord(BanUser(nBanEvents'), BanGuild(nBanEvents'), clock')
            IN  /\ cachedStorage'.recentBans =
                      WithOneMore(cachedStorage.recentBans, rec)
                /\ cachedStorage'.botData[id].recentBans =
                      WithOneMore(cachedStorage.botData[id].recentBans, rec)
                /\ \A k \in PartitionIds \ {id} :
                      cachedStorage'.botData[k].recentBans =
                          cachedStorage.botData[k].recentBans
                /\ cachedStorage'.activeBotId = cachedStorage.activeBotId]_vars
    /\ [](\A k \in PartitionIds \cup {GlobalKey} : Len(HistoryOf(k)) <= RecentBansCap)

\* the global history is full and has dropped records while the histories of
\* two bots, each filled while it was the active one, are still below the cap
C19_Witness ==
    /\ Len(banLog[GlobalKey]) > RecentBansCap
    /\ Len(cachedStorage.recentBans) = RecentBansCap
    /\ \E k \in BotIds :
          /\ cachedStorage.activeBotId = k
          /\ Len(cachedStorage.botData[k].recentBans) \in 1..(RecentBansCap - 1)
          /\ Head(cachedStorage.botData[k].recentBans) = Head(cachedStorage.recentBans)
          /\ \E o \in BotIds \ {k} :
                Len(cachedStorage.botData[o].recentBans) \in 1..(RecentBansCap - 1)

(* -------------------------- partial ban events ------------------------- *)

\* Ban events in a run that follows partial payloads (below RecentBansCap, so
\* the global history drops none of them).
MaxPartialEvents == 3

\* A ban event whose payload is complete.
CompleteBanAdd ==
    /\ nBanEvents < MaxPartialEvents
    /\ GuildBanAdd

\* A ban event whose payload is partial.
PartialBanAdd ==
    /\ nBanEvents < MaxPartialEvents
    /\ GuildBanAddPartial

\* Ban events with complete and partial payloads, ban.fetch() resolving or
\* rejecting, and switches of the active bot in between.
NextPartial ==
    \/ CompleteBanAdd
    \/ PartialBanAdd
    \/ \E n \in 1..MaxPartialEvents : BanFetchResolved(n)
    \/ \E n \in 1..MaxPartialEvents : BanFetchRejected(n)
    \/ \E c \in BotIds : SwitchDuringBans(c)

SpecPartial == Init /\ [][NextPartial]_vars

\* C20: a ban event with a partial payload whose ban.fetch() fails is still
\* recorded: every delivered ban event whose handler has ended has its record
\* in the global history.
C20_PartialStillRecorded ==
    Len(cachedStorage.recentBans) + Cardinality(pendingBans) = nBanEvents

(* ------------------- failures inside the join handler ------------------ *)

\* C21: a join whose ban call failed has ended with that one ban call, no
\* owner message attempted and none sent, and the step in which the call
\* fails changes neither the stored document nor any guild's bans; an owner
\* message is attempted only for a join whose own ban call succeeded.
C21_BanFailureEndsHandler ==
    /\ [](\A j \in 1..MaxJoins :
            /\ joins[j].ban = "failed" =>
                  /\ joins[j].pc = "done"
                  /\ joins[j].banCalls = 1
                  /\ joins[j].dmAttempts = 0
                  /\ ~msgs[j].sent
            /\ (joins[j].dmAttempts > 0 \/ msgs[j].sent) =>
                  /\ joins[j].ban = "ok"
                  /\ joins[j].banCalls = 1)
    /\ [][(\E j \in 1..MaxJoins : joins[j].ban = "" /\ joins'[j].ban = "failed") =>
            /\ cachedStorage' = cachedStorage
            /\ banned' = banned
            /\ msgs' = msgs]_vars

\* the ban call of a blacklisted user's join failed, and a later join of the
\* same user was banned and notified
C21_Witness ==
    \E j \in 1..MaxJoins, k \in 1..MaxJoins :
        /\ joins[j].ban = "failed"
        /\ joins[j].pc = "done"
        /\ joins[k].ban = "ok"
        /\ msgs[k].sent
        /\ joins[k].userId = joins[j].userId

\* C22: a join whose owner message could not be delivered after its ban has
\* ended normally with that one delivery attempt and no notification, the
\* user is banned from the guild, and the step in which the delivery fails
\* changes neither the stored document nor any guild's bans.
C22_SendFailureSwallowed ==
    /\ [](\A j \in 1..MaxJoins :
            joins[j].dm = "failed" =>
                /\ joins[j].pc = "done"
                /\ joins[j].ban = "ok"
                /\ joins[j].banCalls = 1
                /\ joins[j].dmAttempts = 1
                /\ ~msgs[j].sent
                /\ <<joins[j].guildId, joins[j].userId>> \in banned)
    /\ [][(\E j \in 1..MaxJoins : joins[j].dm = "" /\ joins'[j].dm = "failed") =>
            /\ cachedStorage' = cachedStorage
            /\ banned' = banned
            /\ msgs' = msgs]_vars

\* the owner of g1 could not be reached after the ban, the owner of g2 could
C22_Witness ==
    \E j \in 1..MaxJoins, k \in 1..MaxJoins :
        /\ joins[j].dm = "failed"
        /\ joins[j].guildId = "g1"
        /\ joins[k].dm = "ok"
        /\ joins[k].guildId = "g2"
        /\ msgs[k].sent

(* --------------------- failures and the callbacks ---------------------- *)

\* C23: whatever external call fails while a join or a button click is
\* handled, the failure is caught inside the callback: no handler ends with
\* a rejection that left it.
C23_NoRejectionEscapes ==
    /\ \A c \in 1..MaxClicks :
          clicks[c].pc = "done" => clicks[c].outcome \in {"updated", "error_reply"}
    /\ \A j \in 1..MaxJoins :
          joins[j].pc \in {"idle", "fetchOwner", "ban", "send", "done"}

(* -------------------- concurrent session requests ---------------------- *)

\* The Client object the next `new Client(...)` creates.
NextClient ==
    IF \E n \in 1..MaxClients : gateways[n].state = "none"
    THEN CHOOSE n \in 1..MaxClients :
             /\ gateways[n].state = "none"
             /\ \A m \in 1..MaxClients : gateways[m].state = "none" => n <= m
    ELSE 0

\* client.isReady()
IsReady(g) == g.state = "ready"

\* A client that is logged in and not destroyed: its handlers get the events.
Live(g) == g.state \in {"connecting", "ready"}

\* client.destroy(): the call is not awaited and does not cancel a login()
\* that is still in flight on the same client.
Destroyed(g) == [g EXCEPT !.state = "destroyed"]

\* startBot() as call k: true at once on a ready client; otherwise the
\* current client is destroyed, a new one is created, gets the handlers and
\* client.login() is awaited on it.
startBotCall(k, kind) ==
    IF IsReady(gateways[current])
    THEN /\ calls' = [calls EXCEPT ![k] =
                [IdleCall EXCEPT !.pc = "done", !.kind = kind,
                                 !.result = "true", !.why = "alreadyReady"]]
         /\ UNCHANGED <<gateways, current>>
    ELSE /\ NextClient # 0
         /\ gateways' = [gateways EXCEPT
                ![current] = Destroyed(@),
                ![NextClient] = [state |-> "login", loginPending |-> TRUE]]
         /\ current' = NextClient
         /\ calls' = [calls EXCEPT ![k] =
                [IdleCall EXCEPT !.pc = "login", !.kind = kind, !.on = NextClient]]

\* POST /api/bot/start
PostBotStart ==
    /\ NextSlot(calls) # 0
    /\ startBotCall(NextSlot(calls), "start")
    /\ UNCHANGED <<storeVars, banVars, botVars, sessionVars, scanVars, fileVars, apiVars>>

\* POST /api/bot/stop: stopBot() returns true on a client that is not ready,
\* and destroys a ready one and returns true.
PostBotStop ==
    /\ NextSlot(calls) # 0
    /\ gateways' = IF IsReady(gateways[current])
                   THEN [gateways EXCEPT ![current] = Destroyed(@)]
                   ELSE gateways
    /\ calls' = [calls EXCEPT ![NextSlot(calls)] =
           [IdleCall EXCEPT !.pc = "done", !.kind = "stop", !.result = "true",
                            !.why = IF IsReady(gateways[current])
                                    THEN "destroyed" ELSE "offline"]]
    /\ UNCHANGED <<current, storeVars, banVars, botVars, sessionVars, scanVars, fileVars, apiVars>>

\* POST /api/dev/bots/switch {clientId}: setActiveBot, stopBot, startBot; after
\* stopBot the client is not ready, so startBot replaces it.
PostBotSwitch(clientId) ==
    /\ NextSlot(calls) # 0
    /\ PostDevBotsSwitch(clientId)
    /\ NextClient # 0
    /\ gateways' = [gateways EXCEPT
           ![current] = Destroyed(@),
           ![NextClient] = [state |-> "login", loginPending |-> TRUE]]
    /\ current' = NextClient
    /\ calls' = [calls EXCEPT ![NextSlot(calls)] =
           [IdleCall EXCEPT !.pc = "login", !.kind = "switch", !.on = NextClient]]
    /\ UNCHANGED <<storeHistory, banVars, botVars, sessionVars, scanVars, fileVars, apiVars>>

\* The continuation of startBot after `await client.login()`: a rejection is
\* caught and gives false; otherwise the ready event of whatever client the
\* module variable names by then is awaited, with true at once if it is ready.
AfterLogin(call, n, resolved, clients) ==
    IF call.pc = "login" /\ call.on = n
    THEN IF ~resolved
         THEN [call EXCEPT !.pc = "done", !.result = "false", !.why = "loginFailed"]
         ELSE IF IsReady(clients[current])
         THEN [call EXCEPT !.pc = "done", !.result = "true", !.why = "ready"]
         ELSE [call EXCEPT !.pc = "waitReady", !.listen = current]
    ELSE call

\* client.login() of client n settles.  On a client that was destroyed while
\* its login was in flight the connection is either gone or, when destroy()
\* came before the connection existed, established all the same (survives).
LoginSettled(n, resolved, survives) ==
    /\ gateways[n].loginPending
    /\ gateways[n].state = "login" => ~survives
    /\ survives => resolved
    /\ gateways' = [gateways EXCEPT ![n] =
           [state |-> IF ~resolved
                      THEN (IF @.state = "login" THEN "failed" ELSE @.state)
                      ELSE IF @.state = "login" \/ survives THEN "connecting"
                      ELSE @.state,
            loginPending |-> FALSE]]
    /\ calls' = [k \in 1..MaxCalls |-> AfterLogin(calls[k], n, resolved, gateways')]
    /\ UNCHANGED <<current, storeVars, banVars, botVars, sessionVars, scanVars, fileVars, apiVars>>

\* The ready event of client n: every startBot waiting for it resolves true.
GatewayReady(n) ==
    /\ gateways[n].state = "connecting"
    /\ gateways' = [gateways EXCEPT ![n].state = "ready"]
    /\ calls' = [k \in 1..MaxCalls |->
           IF calls[k].pc = "waitReady" /\ calls[k].listen = n
           THEN [calls[k] EXCEPT !.pc = "done", !.result = "true", !.why = "ready"]
           ELSE calls[k]]
    /\ UNCHANGED <<current, storeVars, banVars, botVars, sessionVars, scanVars, fileVars, apiVars>>

ReadyTimer_KeepsWaiting(k) ==
    /\ calls[k].pc = "waitReady"
    /\ UNCHANGED vars

\* The 15 s timer of call k fires before the ready event: false.
ReadyTimer(k) ==
    /\ calls[k].pc = "waitReady"
    /\ calls' = [calls EXCEPT ![k] =
           [@ EXCEPT !.pc = "done", !.result = "false", !.why = "timeout"]]
    /\ UNCHANGED <<gateways, current, storeVars, banVars, botVars, sessionVars, scanVars, fileVars, apiVars>>

NextLive ==
    \/ PostBotStart
    \/ PostBotStop
    \/ \E c \in BotIds : PostBotSwitch(c)
    \/ \E n \in 1..MaxClients, r \in BOOLEAN, s \in BOOLEAN : LoginSettled(n, r, s)
    \/ \E n \in 1..MaxClients : GatewayReady(n)
    \/ \E k \in 1..MaxCalls : ReadyTimer(k)

SpecLive == Init /\ [][NextLive]_vars

\* Every login() settles (the platform answers or the connection attempt
\* times out) and every 15 s timer that is not cleared fires.
FairLive ==
    /\ SpecLive
    /\ \A n \in 1..MaxClients :
          WF_vars(\E r \in BOOLEAN, s \in BOOLEAN : LoginSettled(n, r, s))
    /\ \A k \in 1..MaxCalls : WF_vars(ReadyTimer(k))

C29_OneLiveClient ==
    Cardinality({n \in 1..MaxClients : Live(gateways[n])}) <= 1

(* ------------------------- a read that fails --------------------------- *)

\* cachedStorage before the first readStorage of a process.
NullCache == "null"

\* The catch of readStorage: `return cachedStorage || {}`.  Nothing is
\* assigned to cachedStorage in the catch.
readStorageCatch(cache) == IF cache = NullCache THEN EmptyStorage ELSE cache

\* The process is started again and its first readStorage, made by
\* addToBlacklist, throws while the file is there (the file cannot be read
\* or its text does not parse): the catch gives the document the operation
\* changes and hands to writeStorage.
AddAfterFailedRead(userId) ==
    /\ nCrashes < MaxCrashes
    /\ nCrashes' = nCrashes + 1
    /\ storageFile.state = "complete"
    /\ LET data == addToBlacklist(readStorageCatch(NullCache), userId, NoBot)
       IN  /\ cachedStorage' = data
           /\ writing' = [pc |-> "temp", data |-> data]
           /\ lastWrite' = [prev |-> storageFile, data |-> data]
    /\ UNCHANGED <<storageFile, tempFile>>
    /\ UNCHANGED <<storeHistory, banVars, botVars, sessionVars, scanVars, apiVars, liveVars>>

\* The storage file under writes, crashes and failing reads.
NextRead ==
    \/ \E u \in Users : WriteAdd(u)
    \/ \E u \in Users : WriteRemove(u)
    \/ \E g \in ApprovalGuilds, u \in Joiners : WriteBypass(g, u)
    \/ TempOpened
    \/ TempWritten
    \/ Renamed
    \/ WriteFailed
    \/ CrashAndRestart
    \/ \E u \in Users : AddAfterFailedRead(u)

SpecRead == Init /\ [][NextRead]_vars

\* C25: no store operation removes a bypass entry, so whenever the storage
\* file is replaced, also by an operation whose read of the file failed, the
\* new file holds every bypass entry the old one held.
C25_FailedReadKeepsData ==
    [][(storageFile' # storageFile /\ storageFile.state = "complete") =>
          \A g \in Guilds :
              Elems(storageFile.doc.serverBypasses[g]) \subseteq
                  Elems(storageFile'.doc.serverBypasses[g])]_vars

(* ------------------- what an owner's response changes ------------------ *)

\* Joins in every guild and the owners' responses, every external call
\* succeeding except the unban, which may fail.
NextFrame ==
    \/ \E u \in Joiners : DashboardAdd(u)
    \/ \E g \in Guilds, u \in Joiners : GuildMemberAdd(g, u)
    \/ \E j \in 1..MaxJoins : OwnerFetched(j)
    \/ \E j \in 1..MaxJoins : BanResolved(j)
    \/ \E j \in 1..MaxJoins : SendResolved(j)
    \/ \E m \in 1..MaxJoins, a \in ButtonActions : ButtonClick(m, a)
    \/ \E c \in 1..MaxClicks : GuildFetched(c)
    \/ \E c \in 1..MaxClicks, ok \in BOOLEAN : UnbanSettled(c, ok)
    \/ \E c \in 1..MaxClicks : UpdateResolved(c)

SpecFrame == Init /\ [][NextFrame]_vars

BypassBots == {"B1"}

\* Every request and response that can follow the creation of a bypass
\* entry: blacklist add and remove, scope toggle, active-bot switch, bot
\* accounts added and removed, bypass requests, joins and the owners'
\* responses.
NextBypass ==
    \/ \E u \in Joiners : DashboardAdd(u)
    \/ \E u \in Joiners : DashboardRemove(u)
    \/ \E f \in FlagInputs : DashboardSettings(f, "undefined")
    \/ \E c \in BypassBots : DashboardSwitch(c)
    \/ \E c \in BypassBots : DashboardAddBot(c)
    \/ \E c \in BypassBots : DashboardRemoveBot(c)
    \/ \E g \in ApprovalGuilds, u \in Joiners : DashboardBypass(g, u)
    \/ \E g \in ApprovalGuilds, u \in Joiners : ScopeMemberAdd(g, u)
    \/ \E j \in 1..MaxJoins : OwnerFetched(j)
    \/ \E j \in 1..MaxJoins : BanResolved(j)
    \/ \E j \in 1..MaxJoins : SendResolved(j)
    \/ \E m \in 1..MaxJoins, a \in ButtonActions : ButtonClick(m, a)
    \/ \E c \in 1..MaxClicks : GuildFetched(c)
    \/ \E c \in 1..MaxClicks : UnbanSettled(c, TRUE)
    \/ \E c \in 1..MaxClicks : UpdateResolved(c)

SpecBypass == Init /\ [][NextBypass]_vars

\* C27: a user who is in a guild's bypass list is in it after every step,
\* whatever request or response the step belongs to, and no bypass list
\* holds a user twice.
C27_BypassNeverExpires ==
    /\ [][\A g \in Guilds : \A u \in Users :
            Includes(getBypassList(cachedStorage, g), u) =>
                Includes(getBypassList(cachedStorage, g), u)']_vars
    /\ [](\A g \in Guilds :
            Len(getBypassList(cachedStorage, g)) =
                Cardinality(Elems(getBypassList(cachedStorage, g))))

\* the owner allowed the user and answered a second time; the user was then
\* taken off the blacklist, per-bot mode was set, the active bot was removed,
\* and the entry is still there, once
C27_Witness ==
    /\ \E c \in 1..MaxClicks, d \in 1..MaxClicks :
          /\ c # d
          /\ clicks[c].action = "bypass_allow" /\ clicks[c].outcome = "updated"
          /\ clicks[d].pc = "done"
          /\ getBypassList(cachedStorage, clicks[c].guildId) = <<clicks[c].userId>>
          /\ ~Includes(cachedStorage.globalBlacklist, clicks[c].userId)
    /\ cachedStorage.isBlacklistShared = "false"
    /\ cachedStorage.activeBotId = NoBot
    /\ cachedStorage.botAccounts # <<>>

(* ------------------------ the active bot account ----------------------- *)

\* C28: activeBotId is unset or names an account that is in botAccounts, and
\* botAccounts holds no clientId twice.
C28_ActiveBotIsRegistered ==
    /\ cachedStorage.activeBotId = NoBot
          \/ Includes(cachedStorage.botAccounts, cachedStorage.activeBotId)
    /\ Len(cachedStorage.botAccounts) = Cardinality(Elems(cachedStorage.botAccounts))

(* ------------------- a join suspended across an approval --------------- *)

\* C30: no ban call is issued for a user who is in the bypass list of the
\* guild at the moment of the call, also when the handler that issues it
\* read the lists before the entry was added.
C30_NoBanAfterBypass ==
    [][\A j \in 1..MaxJoins :
          joins'[j].banCalls > joins[j].banCalls =>
              ~Includes(getBypassList(cachedStorage, joins[j].guildId),
                        joins[j].userId)]_vars

====
